---------------------------- MODULE Spec2Model ----------------------------
(***************************************************************************)
(* The LAPD crime dashboard script (src/crime_analysis.py) as a state      *)
(* machine: the rows of the CSV file, load_and_preprocess_data, and the    *)
(* statements that build area_summary (groupby/agg, severity_index,        *)
(* crime_norm, danger_index, pd.qcut) and hand one CircleMarker per row to *)
(* folium.                                                                 *)
(*                                                                         *)
(* Floating-point columns are modelled as exact rationals [n, d] in lowest *)
(* terms; NaN is the record with d = 0.                                    *)
(***************************************************************************)
EXTENDS Integers, Sequences, FiniteSets, TLC

VARIABLES
    csv,            \* the rows of crime_20_24_clean.csv, as pd.read_csv yields them
    pc,             \* the statement of the script that runs next
    crime_lapd,     \* the module-level frame (line 35); <<>> while unassigned
    area_summary,   \* area_name -> row of the area_summary frame; columns are added in place
    bins,           \* the quantile edges pd.qcut computed; <<>> before
    markers,        \* the locations handed to folium.CircleMarker, in call order
    err             \* the exception that ended the script, or "none"

vars == <<csv, pc, crime_lapd, area_summary, bins, markers, err>>

-----------------------------------------------------------------------------
(* Bounds of the model *)

\* Spec: number of area names and of CSV rows, rows of every kind
NAreas == 3
MaxRows == 4
\* ScorerSpec: number of area names and of CSV rows, rows that parse and carry coordinates
NScorerAreas == 6
MaxScorerRows == 11

-----------------------------------------------------------------------------
(* Rationals standing for float64 values *)

RECURSIVE GCD(_, _)
GCD(a, b) == IF b = 0 THEN a ELSE GCD(b, a % b)

Abs(x) == IF x < 0 THEN -x ELSE x

NaN == [n |-> 0, d |-> 0]

IsNaN(x) == x.d = 0

\* n / d for d > 0, in lowest terms
Rat(n, d) ==
    LET g == GCD(Abs(n), d)
    IN  [n |-> n \div g, d |-> d \div g]

\* float division: NaN propagates, 0/0 is NaN
RDiv(x, y) ==
    IF IsNaN(x) \/ IsNaN(y) \/ y.n = 0 THEN NaN
    ELSE IF y.n > 0 THEN Rat(x.n * y.d, x.d * y.n)
    ELSE Rat(-(x.n * y.d), x.d * (-y.n))

RAdd(x, y) ==
    IF IsNaN(x) \/ IsNaN(y) THEN NaN
    ELSE Rat(x.n * y.d + y.n * x.d, x.d * y.d)

RSub(x, y) ==
    IF IsNaN(x) \/ IsNaN(y) THEN NaN
    ELSE Rat(x.n * y.d - y.n * x.d, x.d * y.d)

RMul(x, y) ==
    IF IsNaN(x) \/ IsNaN(y) THEN NaN
    ELSE Rat(x.n * y.n, x.d * y.d)

\* comparisons with NaN are false, as in IEEE 754
RLess(x, y) == ~IsNaN(x) /\ ~IsNaN(y) /\ x.n * y.d < y.n * x.d

RLeq(x, y) == ~IsNaN(x) /\ ~IsNaN(y) /\ x.n * y.d <= y.n * x.d

Int2R(i) == [n |-> i, d |-> 1]

-----------------------------------------------------------------------------
(* The input file *)

\* area names, in the alphabetical order groupby sorts its keys in
AREA_POOL == <<"77th Street", "Central", "Foothill", "Hollywood", "Mission",
               "Newton", "Olympic", "Pacific">>

AreaIndex(a) == CHOOSE i \in 1..Len(AREA_POOL) : AREA_POOL[i] = a

AreaNames(k) == {AREA_POOL[i] : i \in 1..k}

GOOD_DATE == "2021-06-14 13:30:00"
BAD_DATE == "not a date"

\* a located and an unlocated incident
COORDS == <<[lat |-> Int2R(34), lon |-> Int2R(-118)], [lat |-> NaN, lon |-> NaN]>>

\* part_1-2 is 1 (Part 1) or 2 (Part 2)
PARTS == <<1, 2>>

DATES == <<GOOD_DATE, BAD_DATE>>

\* One CSV row; dr_no is the row's unique report number
RawRow(no, a, p, c, t) ==
    [dr_no |-> no, date_occ |-> DATES[t], area_name |-> AREA_POOL[a],
     part_1_2 |-> PARTS[p], lat |-> COORDS[c].lat, lon |-> COORDS[c].lon]

\* Rows are listed in one order per multiset of rows: nothing the script
\* computes from the frame depends on the order of its rows.
RowKey(a, p, c, t) == ((a * 2 + p) * 2 + c) * 2 + t

KeyOfRow(r) ==
    RowKey(AreaIndex(r.area_name),
           IF r.part_1_2 = 1 THEN 1 ELSE 2,
           IF IsNaN(r.lat) THEN 2 ELSE 1,
           IF r.date_occ = GOOD_DATE THEN 1 ELSE 2)

CanAppend(a, p, c, t) ==
    IF csv = <<>> THEN TRUE ELSE KeyOfRow(csv[Len(csv)]) <= RowKey(a, p, c, t)

\* pd.read_csv, one more row of the file (any kind of row)
ReadRow ==
    /\ pc = "read_csv"
    /\ Len(csv) < MaxRows
    /\ \E a \in 1..NAreas, p \in 1..2, c \in 1..2, t \in 1..2 :
          /\ CanAppend(a, p, c, t)
          /\ csv' = Append(csv, RawRow(Len(csv) + 1, a, p, c, t))
    /\ UNCHANGED <<pc, crime_lapd, area_summary, bins, markers, err>>

\* the number of rows read so far for the a-th area name
RowsRead(a) == Cardinality({i \in 1..Len(csv) : csv[i].area_name = AREA_POOL[a]})

\* Clean files are listed up to a renaming of the areas (the scorer uses an
\* area name only as a group key): the areas appear in name order, each with
\* at most as many rows as the one before it.
CleanOrder(a) ==
    IF csv = <<>> THEN a = 1
    ELSE LET last == AreaIndex(csv[Len(csv)].area_name)
         IN  IF a = last
             THEN IF a = 1 THEN TRUE ELSE RowsRead(a) < RowsRead(a - 1)
             ELSE a = last + 1

\* pd.read_csv, one more row of a clean file (parseable date, coordinates present)
ReadCleanRow ==
    /\ pc = "read_csv"
    /\ Len(csv) < MaxScorerRows
    /\ \E a \in 1..NScorerAreas, p \in 1..2 :
          /\ CleanOrder(a)
          /\ CanAppend(a, p, 1, 1)
          /\ csv' = Append(csv, RawRow(Len(csv) + 1, a, p, 1, 1))
    /\ UNCHANGED <<pc, crime_lapd, area_summary, bins, markers, err>>

-----------------------------------------------------------------------------
(* load_and_preprocess_data *)

DAY_ORDER == <<"Monday", "Tuesday", "Wednesday", "Thursday", "Friday",
               "Saturday", "Sunday">>

MONTH_ORDER == <<"January", "February", "March", "April", "May", "June", "July",
                 "August", "September", "October", "November", "December">>

\* pd.to_datetime on one cell: the calendar fields, or no parse
Parseable(s) == s = GOOD_DATE

\* 14 June 2021 was a Monday (weekday 0)
ToDatetime(s) ==
    CASE s = GOOD_DATE -> [year |-> 2021, month |-> 6, weekday |-> 0, hour |-> 13]

\* the four .dt accessors of lines 17-20 on one row
WithFeatures(r) ==
    LET ts == ToDatetime(r.date_occ)
    IN  r @@ [year |-> ts.year,
              month_name |-> MONTH_ORDER[ts.month],
              day_of_week |-> DAY_ORDER[ts.weekday + 1],
              hour |-> ts.hour]

\* Row-by-row conversion: the rows before the first unparsable one keep
\* their features when the conversion raises
LoadRowByRow ==
    /\ pc = "read_csv"
    /\ IF \A i \in 1..Len(csv) : Parseable(csv[i].date_occ)
       THEN /\ crime_lapd' = [i \in 1..Len(csv) |-> WithFeatures(csv[i])]
            /\ pc' = "groupby"
            /\ err' = err
       ELSE /\ LET bad == CHOOSE i \in 1..Len(csv) :
                             /\ ~Parseable(csv[i].date_occ)
                             /\ \A j \in 1..(i - 1) : Parseable(csv[j].date_occ)
               IN  crime_lapd' = [i \in 1..(bad - 1) |-> WithFeatures(csv[i])]
            /\ pc' = "done"
            /\ err' = "ValueError"
    /\ UNCHANGED <<csv, area_summary, bins, markers>>

\* pd.to_datetime converts the whole column or raises; only then are the
\* feature columns assigned and the frame returned to line 35
LoadAndPreprocess ==
    /\ pc = "read_csv"
    /\ IF \A i \in 1..Len(csv) : Parseable(csv[i].date_occ)
       THEN /\ crime_lapd' = [i \in 1..Len(csv) |-> WithFeatures(csv[i])]
            /\ pc' = "groupby"
            /\ err' = err
       ELSE /\ crime_lapd' = crime_lapd
            /\ pc' = "done"
            /\ err' = "ValueError"
    /\ UNCHANGED <<csv, area_summary, bins, markers>>

-----------------------------------------------------------------------------
(* area_summary: groupby('area_name').agg(...), lines 174-184 *)

\* the row positions of one group
GroupOf(df, a) == {i \in 1..Len(df) : df[i].area_name = a}

\* the group keys: the area names that occur in the frame
GroupKeys(df) == {df[i].area_name : i \in 1..Len(df)}

\* As ('lat', 'count') would: the rows of the group that carry a latitude
TotalCrimesLocated(df, a) == Cardinality({i \in GroupOf(df, a) : ~IsNaN(df[i].lat)})

\* ('dr_no', 'count'): the rows of the group that carry a report number
TotalCrimes(df, a) == Cardinality({i \in GroupOf(df, a) : df[i].dr_no \in Nat})

\* ('part_1-2', lambda x: (x == 1).sum())
Part1Crimes(df, a) == Cardinality({i \in GroupOf(df, a) : df[i].part_1_2 = 1})

RECURSIVE SumOver(_, _)
SumOver(f, S) ==
    IF S = {} THEN Int2R(0)
    ELSE LET i == CHOOSE j \in S : TRUE
         IN  RAdd(f[i], SumOver(f, S \ {i}))

\* 'mean' of a float column over a set of rows: NaN cells are skipped, and
\* the mean of no cells is NaN
Mean(f, S) ==
    LET valid == {i \in S : ~IsNaN(f[i])}
    IN  IF valid = {} THEN NaN
        ELSE RDiv(SumOver(f, valid), Int2R(Cardinality(valid)))

LatColumn(df) == [i \in 1..Len(df) |-> df[i].lat]

LonColumn(df) == [i \in 1..Len(df) |-> df[i].lon]

GroupByAgg ==
    /\ pc = "groupby"
    /\ area_summary' =
          [a \in GroupKeys(crime_lapd) |->
              [area_name |-> a,
               total_crimes |-> TotalCrimes(crime_lapd, a),
               part1_crimes |-> Part1Crimes(crime_lapd, a),
               lat |-> Mean(LatColumn(crime_lapd), GroupOf(crime_lapd, a)),
               lon |-> Mean(LonColumn(crime_lapd), GroupOf(crime_lapd, a))]]
    /\ pc' = "severity_index"
    /\ UNCHANGED <<csv, crime_lapd, bins, markers, err>>

-----------------------------------------------------------------------------
(* the derived columns, lines 185-195 *)

HasColumn(frame, col) == \A a \in DOMAIN frame : col \in DOMAIN frame[a]

\* frame[col] = values, row by row
Assign(frame, col, values) ==
    [a \in DOMAIN frame |->
        [c \in (DOMAIN frame[a]) \cup {col} |->
            IF c = col THEN values[a] ELSE frame[a][c]]]

SeverityOf(frame) ==
    [a \in DOMAIN frame |->
        RDiv(Int2R(frame[a].part1_crimes), Int2R(frame[a].total_crimes))]

SeverityIndex ==
    /\ pc = "severity_index"
    /\ area_summary' = Assign(area_summary, "severity_index", SeverityOf(area_summary))
    /\ pc' = "crime_norm"
    /\ UNCHANGED <<csv, crime_lapd, bins, markers, err>>

\* As Series.min() would: the smallest entry
ColumnMin(frame, col) ==
    IF DOMAIN frame = {} THEN NaN
    ELSE Int2R(CHOOSE m \in {frame[a][col] : a \in DOMAIN frame} :
                  \A b \in DOMAIN frame : m <= frame[b][col])

\* Series.max(): the largest entry; NaN for an empty column
ColumnMax(frame, col) ==
    IF DOMAIN frame = {} THEN NaN
    ELSE Int2R(CHOOSE m \in {frame[a][col] : a \in DOMAIN frame} :
                  \A b \in DOMAIN frame : frame[b][col] <= m)

\* Normalization by the maximum of the areas up to and including the row's own
CrimeNormRunningMax(frame) ==
    [a \in DOMAIN frame |->
        LET upTo == {b \in DOMAIN frame : AreaIndex(b) <= AreaIndex(a)}
            m == CHOOSE t \in {frame[b].total_crimes : b \in upTo} :
                    \A b \in upTo : frame[b].total_crimes <= t
        IN  RDiv(Int2R(frame[a].total_crimes), Int2R(m))]

CrimeNormOf(frame) ==
    [a \in DOMAIN frame |->
        RDiv(Int2R(frame[a].total_crimes), ColumnMax(frame, "total_crimes"))]

CrimeNorm ==
    /\ pc = "crime_norm"
    /\ area_summary' = Assign(area_summary, "crime_norm", CrimeNormOf(area_summary))
    /\ pc' = "danger_index"
    /\ UNCHANGED <<csv, crime_lapd, bins, markers, err>>

Half == Rat(1, 2)

DangerOf(frame) ==
    [a \in DOMAIN frame |->
        RAdd(RMul(Half, frame[a].crime_norm), RMul(Half, frame[a].severity_index))]

DangerIndex ==
    /\ pc = "danger_index"
    /\ area_summary' = Assign(area_summary, "danger_index", DangerOf(area_summary))
    /\ pc' = "qcut"
    /\ UNCHANGED <<csv, crime_lapd, bins, markers, err>>

-----------------------------------------------------------------------------
(* risk_level: pd.qcut(danger_index, q=3, labels=[...]), lines 197-201 *)

LABELS == <<"Low", "Medium", "High">>

\* the k-th smallest entry (k = 0 is the minimum) of a column without NaN
OrderStat(x, k) ==
    x[CHOOSE a \in DOMAIN x :
         /\ Cardinality({b \in DOMAIN x : RLess(x[b], x[a])}) <= k
         /\ k < Cardinality({b \in DOMAIN x : RLeq(x[b], x[a])})]

\* Series.quantile(j / q), interpolation='linear': position (n - 1) * j / q
\* in the sorted column, interpolated between its two neighbours; NaN for an
\* empty column
Quantile(x, j, q) ==
    LET n    == Cardinality(DOMAIN x)
        lo   == ((n - 1) * j) \div q
        frac == Rat(((n - 1) * j) % q, q)
    IN  IF n = 0 THEN NaN
        ELSE IF frac.n = 0 THEN OrderStat(x, lo)
        ELSE RAdd(OrderStat(x, lo),
                  RMul(frac, RSub(OrderStat(x, lo + 1), OrderStat(x, lo))))

\* As pd.cut would: q bins of equal width between the minimum and the maximum
EqualWidthEdges(x, q) ==
    LET n  == Cardinality(DOMAIN x)
        lo == OrderStat(x, 0)
        hi == OrderStat(x, n - 1)
    IN  [j \in 1..(q + 1) |->
            IF n = 0 THEN NaN
            ELSE RAdd(lo, RMul(Rat(j - 1, q), RSub(hi, lo)))]

\* the q + 1 bin edges, quantiles 0, 1/q, ..., 1
QuantileEdges(x, q) == [j \in 1..(q + 1) |-> Quantile(x, j - 1, q)]

\* "Bin edges must be unique"
EdgesUnique(edges) == Cardinality({edges[j] : j \in DOMAIN edges}) = Len(edges)

\* bins.searchsorted(v, side='left'), with include_lowest: the 1-based number
\* of the right-closed bin that holds v
BinOf(edges, v) ==
    IF v = edges[1] THEN 1
    ELSE Cardinality({j \in DOMAIN edges : RLess(edges[j], v)})

DangerColumn(frame) == [a \in DOMAIN frame |-> frame[a].danger_index]

\* Naive slicing of the frame into thirds by row position
RiskLevelByRowPosition(frame, edges) ==
    LET n == Cardinality(DOMAIN frame)
        pos(a) == Cardinality({b \in DOMAIN frame : AreaIndex(b) < AreaIndex(a)})
    IN  [a \in DOMAIN frame |-> LABELS[(pos(a) * 3) \div n + 1]]

\* Slicing of the ranked rows into thirds, ties ranked in row order
RiskLevelByRank(frame, edges) ==
    LET n == Cardinality(DOMAIN frame)
        before(b, a) ==
            \/ RLess(frame[b].danger_index, frame[a].danger_index)
            \/ /\ frame[b].danger_index = frame[a].danger_index
               /\ AreaIndex(b) < AreaIndex(a)
        pos(a) == Cardinality({b \in DOMAIN frame : before(b, a)})
    IN  [a \in DOMAIN frame |-> LABELS[(pos(a) * 3) \div n + 1]]

RiskLevelOf(frame, edges) ==
    [a \in DOMAIN frame |-> LABELS[BinOf(edges, frame[a].danger_index)]]

\* qcut raises ValueError when two edges coincide, and the assignment of
\* line 197 does not happen; otherwise every row gets the label of its bin
QCut ==
    /\ pc = "qcut"
    /\ LET edges == QuantileEdges(DangerColumn(area_summary), 3)
       IN  IF EdgesUnique(edges)
           THEN /\ area_summary' =
                      Assign(area_summary, "risk_level", RiskLevelOf(area_summary, edges))
                /\ bins' = edges
                /\ pc' = "map"
                /\ err' = err
           ELSE /\ area_summary' = area_summary
                /\ bins' = bins
                /\ pc' = "done"
                /\ err' = "ValueError"
    /\ UNCHANGED <<csv, crime_lapd, markers>>

-----------------------------------------------------------------------------
(* the map: one folium.CircleMarker per row of area_summary, lines 209-226 *)

\* the rows in frame order: groupby sorts the group keys
RowOrder(frame) ==
    [k \in 1..Cardinality(DOMAIN frame) |->
        CHOOSE a \in DOMAIN frame :
            Cardinality({b \in DOMAIN frame : AreaIndex(b) < AreaIndex(a)}) = k - 1]

Location(row) == [lat |-> row.lat, lon |-> row.lon]

HasNaN(loc) == IsNaN(loc.lat) \/ IsNaN(loc.lon)

\* the locations of the first k rows
Handed(frame, k) == [i \in 1..k |-> Location(frame[RowOrder(frame)[i]])]

\* the number of CircleMarker calls made when the call with a NaN location
\* raises: up to and including the first such row
CallsUntilNaN(frame) ==
    LET all == Handed(frame, Cardinality(DOMAIN frame))
    IN  IF \E i \in DOMAIN all : HasNaN(all[i])
        THEN CHOOSE i \in DOMAIN all :
                 /\ HasNaN(all[i])
                 /\ \A j \in 1..(i - 1) : ~HasNaN(all[j])
        ELSE Len(all)

\* Every row's [lat, lon] is handed to CircleMarker as it is. Whether folium
\* then raises on a NaN location depends on its version: both are modelled.
RenderMap ==
    /\ pc = "map"
    /\ \E raises \in BOOLEAN :
          LET n == Cardinality(DOMAIN area_summary)
              k == CallsUntilNaN(area_summary)
              stopped == IF raises
                         THEN \E a \in DOMAIN area_summary :
                                 HasNaN(Location(area_summary[a]))
                         ELSE FALSE
          IN  /\ markers' = Handed(area_summary, IF stopped THEN k ELSE n)
              /\ err' = IF stopped THEN "ValueError" ELSE err
    /\ pc' = "done"
    /\ UNCHANGED <<csv, crime_lapd, area_summary, bins>>

-----------------------------------------------------------------------------
(* The script *)

Init ==
    /\ csv = <<>>
    /\ pc = "read_csv"
    /\ crime_lapd = <<>>
    /\ area_summary = <<>>
    /\ bins = <<>>
    /\ markers = <<>>
    /\ err = "none"

Scorer ==
    \/ GroupByAgg
    \/ SeverityIndex
    \/ CrimeNorm
    \/ DangerIndex
    \/ QCut
    \/ RenderMap

\* any file of at most MaxRows rows
Next == ReadRow \/ LoadAndPreprocess \/ Scorer

Spec == Init /\ [][Next]_vars

\* any clean file of at most MaxScorerRows rows
ScorerNext == ReadCleanRow \/ LoadAndPreprocess \/ Scorer

ScorerSpec == Init /\ [][ScorerNext]_vars

-----------------------------------------------------------------------------
(* Vocabulary of the properties *)

\* the incidents of the input with a given area name
IncidentsOf(a) == {i \in 1..Len(csv) : csv[i].area_name = a}

AreasOfInput == {csv[i].area_name : i \in 1..Len(csv)}

\* the whole batch was parsed and handed to the scorer
Loaded == pc # "read_csv" /\ Len(crime_lapd) = Len(csv)

\* the group/aggregate statement has run
Aggregated == Loaded /\ pc # "groupby"

Has(col) == area_summary # <<>> /\ HasColumn(area_summary, col)

InUnitInterval(x) == RLeq(Int2R(0), x) /\ RLeq(x, Int2R(1))

Rank(label) == CHOOSE k \in 1..3 : LABELS[k] = label

Labelled(label) == {a \in DOMAIN area_summary : area_summary[a].risk_level = label}

DangerDistinct ==
    \A a, b \in DOMAIN area_summary :
        a # b => area_summary[a].danger_index # area_summary[b].danger_index

-----------------------------------------------------------------------------
(* C1 *)

\* C1: once the scorer has aggregated a non-empty input, area_summary holds
\* exactly one row per area name of the input and no other; its total_crimes
\* is the number of input incidents of that area, located or not, and its
\* part1_crimes the number of those whose part_1-2 is exactly 1.
C1_OneSummaryPerArea ==
    (Aggregated /\ csv # <<>>) =>
        /\ DOMAIN area_summary = AreasOfInput
        /\ \A a \in DOMAIN area_summary :
              /\ area_summary[a].area_name = a
              /\ area_summary[a].total_crimes = Cardinality(IncidentsOf(a))
              /\ area_summary[a].part1_crimes =
                    Cardinality({i \in IncidentsOf(a) : csv[i].part_1_2 = 1})

\* a finished run with an area that has an unlocated incident, a located one
\* and a Part 2 incident, beside a second area
C1_Witness ==
    /\ pc = "done"
    /\ Aggregated
    /\ Cardinality(DOMAIN area_summary) >= 2
    /\ \E a \in DOMAIN area_summary :
          /\ \E i \in IncidentsOf(a) : IsNaN(csv[i].lat)
          /\ \E i \in IncidentsOf(a) : ~IsNaN(csv[i].lat)
          /\ area_summary[a].part1_crimes < area_summary[a].total_crimes
          /\ area_summary[a].part1_crimes > 0

-----------------------------------------------------------------------------
(* C2 *)

\* C2: for a non-empty input, severity_index, crime_norm and danger_index of
\* every area lie in [0, 1], and an area with the largest total_crimes has
\* crime_norm exactly 1.
C2_IndicesInUnitInterval ==
    Has("danger_index") =>
        /\ \A a \in DOMAIN area_summary :
              /\ InUnitInterval(area_summary[a].severity_index)
              /\ InUnitInterval(area_summary[a].crime_norm)
              /\ InUnitInterval(area_summary[a].danger_index)
        /\ \E a \in DOMAIN area_summary :
              /\ area_summary[a].crime_norm = Int2R(1)
              /\ \A b \in DOMAIN area_summary :
                    area_summary[b].total_crimes <= area_summary[a].total_crimes

\* areas of different sizes, one of them with crime_norm below 1 and a
\* severity strictly between 0 and 1
C2_Witness ==
    /\ Has("danger_index")
    /\ \E a, b \in DOMAIN area_summary :
          /\ area_summary[a].total_crimes < area_summary[b].total_crimes
          /\ RLess(area_summary[a].crime_norm, Int2R(1))
          /\ RLess(Int2R(0), area_summary[b].severity_index)
          /\ RLess(area_summary[b].severity_index, Int2R(1))

-----------------------------------------------------------------------------
(* C3, C4, C9: the labels of one scorer run *)

\* C3: tertile labelling is monotonic: an area with a strictly smaller
\* danger_index is never labelled strictly above one with a larger
\* danger_index, in the order Low < Medium < High.
C3_LabelsMonotonic ==
    Has("risk_level") =>
        \A a, b \in DOMAIN area_summary :
            RLess(area_summary[a].danger_index, area_summary[b].danger_index) =>
                Rank(area_summary[a].risk_level) <= Rank(area_summary[b].risk_level)

\* a labelled run of at least four areas in which all three labels occur
C3_Witness ==
    /\ Has("risk_level")
    /\ Cardinality(DOMAIN area_summary) >= 4
    /\ \A k \in 1..3 : Labelled(LABELS[k]) # {}

\* C4: two areas with the same danger_index get the same risk_level, also
\* when the shared value is one of the tertile boundaries.
C4_TiesShareLabel ==
    Has("risk_level") =>
        \A a, b \in DOMAIN area_summary :
            area_summary[a].danger_index = area_summary[b].danger_index =>
                area_summary[a].risk_level = area_summary[b].risk_level

\* a labelled run with two areas tied on an inner bin edge
C4_Witness ==
    /\ Has("risk_level")
    /\ \E a, b \in DOMAIN area_summary :
          /\ a # b
          /\ area_summary[a].danger_index = area_summary[b].danger_index
          /\ area_summary[a].danger_index \in {bins[2], bins[3]}

\* C9: when the danger_index values of the n areas are pairwise distinct, the
\* numbers of areas labelled Low, Medium and High differ by at most one, and
\* each is n / 3 when n is a multiple of 3.
C9_EqualCountBuckets ==
    (Has("risk_level") /\ DangerDistinct) =>
        LET n == Cardinality(DOMAIN area_summary)
            count == [k \in 1..3 |-> Cardinality(Labelled(LABELS[k]))]
        IN  /\ \A j, k \in 1..3 : count[j] - count[k] <= 1
            /\ n % 3 = 0 => \A k \in 1..3 : count[k] = n \div 3

\* a labelled run of six areas with pairwise distinct danger_index
C9_Witness ==
    /\ Has("risk_level")
    /\ DangerDistinct
    /\ Cardinality(DOMAIN area_summary) = 6

-----------------------------------------------------------------------------
(* C10: the order of the two passes *)

\* the largest number of incidents any area of the input has
LargestArea == CHOOSE a \in AreasOfInput :
                   \A b \in AreasOfInput :
                       Cardinality(IncidentsOf(b)) <= Cardinality(IncidentsOf(a))

\* C10: whenever an area carries crime_norm, danger_index or risk_level, the
\* aggregates of every area of the input are present and final, and each
\* crime_norm is total_crimes over the largest total_crimes of all areas of
\* the run.
C10_NormalizeAfterAggregate ==
    (Has("crime_norm") \/ Has("danger_index") \/ Has("risk_level")) =>
        /\ pc \notin {"read_csv", "groupby", "severity_index", "crime_norm"}
        /\ DOMAIN area_summary = AreasOfInput
        /\ \A a \in AreasOfInput :
              /\ area_summary[a].total_crimes = Cardinality(IncidentsOf(a))
              /\ area_summary[a].part1_crimes =
                    Cardinality({i \in IncidentsOf(a) : csv[i].part_1_2 = 1})
              /\ area_summary[a].crime_norm =
                    Rat(Cardinality(IncidentsOf(a)), Cardinality(IncidentsOf(LargestArea)))

\* crime_norm is set, and some area is smaller than the largest one
C10_Witness ==
    /\ Has("crime_norm")
    /\ \E a \in DOMAIN area_summary : RLess(area_summary[a].crime_norm, Int2R(1))

-----------------------------------------------------------------------------
(* C6: the empty input *)

\* C6: an input of zero incidents ends the scorer with EmptyInputError, and
\* nothing is output: no area summary, no cut points, no marker on the map.
C6_EmptyInputError ==
    (csv = <<>> /\ pc = "done") =>
        /\ err = "EmptyInputError"
        /\ area_summary = <<>>
        /\ bins = <<>>
        /\ markers = <<>>

-----------------------------------------------------------------------------
(* C7: an unparsable timestamp *)

BadTimestamp == \E i \in 1..Len(csv) : csv[i].date_occ = BAD_DATE

FEATURES == {"year", "month_name", "day_of_week", "hour"}

-----------------------------------------------------------------------------
(* C5, C8 *)

\* C5: for every non-empty input, however few its areas and however many of
\* them share a danger_index, the scorer completes without error and gives
\* every area exactly one risk_level among Low, Medium and High.
C5_EveryAreaLabelled ==
    (csv # <<>> /\ Loaded /\ pc \in {"map", "done"}) =>
        /\ Has("risk_level")
        /\ \A a \in DOMAIN area_summary :
              \E k \in 1..3 : area_summary[a].risk_level = LABELS[k]

\* C8: no marker location handed to the map is NaN or (0, 0); the centroid
\* of an area without any located incident is surfaced some other way.
C8_NoNaNMarker ==
    \A i \in 1..Len(markers) :
        /\ ~HasNaN(markers[i])
        /\ markers[i] # [lat |-> Int2R(0), lon |-> Int2R(0)]

=============================================================================
